---- MODULE Spec2Model ----
(***************************************************************************)
(* basic_example_interrupts.c: debouncing of launchpad button S1 with the  *)
(* GPIO port 1 interrupt and the one-shot Timer32_0 interrupt (MSP432).    *)
(*                                                                         *)
(* The two interrupt service routines and the main loop share the two      *)
(* volatile flags S1modified and TimerExpired.  The main loop is modelled  *)
(* statement by statement (pc is the source line it is about to execute),  *)
(* because an ISR can preempt it between any two statements.  An ISR runs  *)
(* to completion: both interrupts keep the reset priority, so they do not  *)
(* nest, and the main loop does not run while an interrupt is pending.     *)
(***************************************************************************)
EXTENDS Naturals, FiniteSets

\* #define DEBOUNCE_WAIT 600000 (timer clocks: 200 ms at 3 MHz, prescaler 1)
DEBOUNCE_WAIT == 600000

\* Bounds of the model: the number of high-to-low transitions of S1 the
\* environment produces, and the number of steps in which the timer counts
\* DEBOUNCE_WAIT down to zero.
MaxEdges == 3
TicksPerWait == 3

TickStep == DEBOUNCE_WAIT \div TicksPerWait

VARIABLES
    S1modified,    \* volatile bool S1modified
    TimerExpired,  \* volatile bool TimerExpired
    P1IFG,         \* P1.1 interrupt flag: port 1 interrupt pending
    T32IFG,        \* Timer32_0 interrupt flag: timer interrupt pending
    t32Enabled,    \* Timer32_0 enable bit (set by Timer32_startTimer)
    t32Count,      \* Timer32_0 current count
    LED1,          \* P1.0, launchpad LED1
    LED2,          \* P2.2, launchpad blue LED2
    pc,            \* the line main is at; "lpm0" is asleep inside PCM_gotoLPM0
    ret,           \* the value the last call of S1tapped returned
    awakeTick,     \* the timer has counted a TickStep since the CPU last slept
    \* history of the run, read by the properties only
    nEdges,        \* high-to-low transitions of S1
    nReq1,         \* times P1IFG went from clear to set
    nReq2,         \* times the count reached zero (T32IFG set)
    nPortIsr,      \* executions of PORT1_IRQHandler
    nTimerIsr,     \* executions of Debounce_Over
    nRise1,        \* times PORT1_IRQHandler changed S1modified false -> true
    nStarts,       \* executions of Timer32_startTimer (line 72)
    nTaps,         \* calls of S1tapped that returned true
    nToggles,      \* executions of Toggle_Launchpad_LED1 (line 116)
    sets1,         \* writes of true to S1modified since its last clear
    sets2,         \* writes of true to TimerExpired since its last clear
    seen68,        \* S1modified as read by line 68 in the current call
    te68,          \* TimerExpired at the moment of that read
    seen86,        \* TimerExpired as read by line 86 in the current call
    callDone,      \* the statements the current call of S1tapped has executed
    lastAct,       \* the last of "start" (line 72) and "tap" (return true)
    burst,         \* every edge so far came before any timer expiry
    fresh1,        \* S1modified was written true since line 68 last read it
    fresh2         \* TimerExpired was written true since line 86 last read it

hw == <<P1IFG, T32IFG, t32Enabled, t32Count>>
flags == <<S1modified, TimerExpired>>
leds == <<LED1, LED2>>
counts == <<nEdges, nReq1, nReq2, nPortIsr, nTimerIsr, nRise1, nStarts, nTaps, nToggles>>
callHist == <<seen68, te68, seen86, callDone>>
vars == <<S1modified, TimerExpired, P1IFG, T32IFG, t32Enabled, t32Count, LED1, LED2,
          pc, ret, awakeTick, nEdges, nReq1, nReq2, nPortIsr, nTimerIsr, nRise1,
          nStarts, nTaps, nToggles, sets1, sets2, seen68, te68, seen86, callDone,
          lastAct, burst, fresh1, fresh2>>

\* The state after initialize(): flags false (lines 31, 34), nothing pending,
\* the timer configured but not started, main about to enter the loop (line 113).
Init ==
    /\ S1modified = FALSE /\ TimerExpired = FALSE
    /\ P1IFG = FALSE /\ T32IFG = FALSE
    /\ t32Enabled = FALSE /\ t32Count = 0
    /\ LED1 = FALSE /\ LED2 = FALSE
    /\ pc = "l113" /\ ret = FALSE /\ awakeTick = FALSE
    /\ nEdges = 0 /\ nReq1 = 0 /\ nReq2 = 0 /\ nPortIsr = 0 /\ nTimerIsr = 0
    /\ nRise1 = 0 /\ nStarts = 0 /\ nTaps = 0 /\ nToggles = 0
    /\ sets1 = 0 /\ sets2 = 0
    /\ seen68 = FALSE /\ te68 = FALSE /\ seen86 = FALSE /\ callDone = {}
    /\ lastAct = "none" /\ burst = TRUE
    /\ fresh1 = FALSE /\ fresh2 = FALSE

----------------------------------------------------------------------------
\* Hardware: the button and the timer.

\* An interrupt is pending: the CPU takes it before main's next statement.
IrqPending == P1IFG \/ T32IFG

\* The timer counts: enabled, one-shot, not yet at zero.
TimerRunning == t32Enabled /\ t32Count > 0

\* PCM_gotoLPM0 returns when an interrupt has been served: main goes on to
\* the call of S1tapped (line 115, first statement line 68).
Wake(p) == IF p = "lpm0" THEN "l68" ELSE p

\* A high-to-low transition on P1.1 sets the pin's interrupt flag (interrupt
\* enabled and edge selected by initialize).
Edge ==
    /\ nEdges < MaxEdges
    /\ nEdges' = nEdges + 1
    /\ P1IFG' = TRUE
    /\ nReq1' = IF P1IFG THEN nReq1 ELSE nReq1 + 1
    /\ burst' = (burst /\ nReq2 = 0)
    /\ UNCHANGED <<fresh1, fresh2, flags, T32IFG, t32Enabled, t32Count, leds, pc, ret, awakeTick,
                   nReq2, nPortIsr, nTimerIsr, nRise1, nStarts, nTaps, nToggles,
                   sets1, sets2, callHist, lastAct>>

\* Timer32_0 counts down by one TickStep; in one-shot mode it halts at zero
\* and raises its interrupt.  The timer clock is the CPU clock (prescaler 1)
\* and a TickStep is far longer than one pass of the loop body, so at most
\* one TickStep ends while the CPU is awake between two sleeps.
Tick ==
    /\ TimerRunning
    /\ pc = "lpm0" \/ ~awakeTick
    /\ awakeTick' = (pc # "lpm0")
    /\ t32Count' = IF t32Count > TickStep THEN t32Count - TickStep ELSE 0
    /\ T32IFG' = (T32IFG \/ t32Count' = 0)
    /\ nReq2' = IF t32Count' = 0 THEN nReq2 + 1 ELSE nReq2
    /\ UNCHANGED <<fresh1, fresh2, flags, P1IFG, t32Enabled, leds, pc, ret,
                   nEdges, nReq1, nPortIsr, nTimerIsr, nRise1, nStarts, nTaps, nToggles,
                   sets1, sets2, callHist, lastAct, burst>>

----------------------------------------------------------------------------
\* The interrupt service routines.

\* GPIO_getInterruptStatus(GPIO_PORT_P1, GPIO_PIN1): the pin's interrupt flag.
GPIO_getInterruptStatus == P1IFG

\* The clear left out: the flag stays as it was.
GPIO_clearInterruptFlag_Missing(ifg) == ifg

\* GPIO_clearInterruptFlag(GPIO_PORT_P1, GPIO_PIN1): the flag afterwards.
GPIO_clearInterruptFlag(ifg) == FALSE

\* Timer32_clearInterruptFlag(TIMER32_0_BASE): the flag afterwards.
Timer32_clearInterruptFlag(ifg) == FALSE

\* void PORT1_IRQHandler(): entered while the port 1 interrupt is pending.
PORT1_IRQHandler ==
    /\ P1IFG
    /\ S1modified' = (IF GPIO_getInterruptStatus THEN TRUE ELSE S1modified)
    /\ P1IFG' = GPIO_clearInterruptFlag(P1IFG)
    /\ pc' = Wake(pc)
    /\ nPortIsr' = nPortIsr + 1
    /\ nRise1' = IF ~S1modified /\ S1modified' THEN nRise1 + 1 ELSE nRise1
    /\ sets1' = IF GPIO_getInterruptStatus THEN sets1 + 1 ELSE sets1
    /\ fresh1' = (IF GPIO_getInterruptStatus THEN TRUE ELSE fresh1)
    /\ UNCHANGED <<fresh2, TimerExpired, T32IFG, t32Enabled, t32Count, leds, ret, awakeTick,
                   nEdges, nReq1, nReq2, nTimerIsr, nStarts, nTaps, nToggles,
                   sets2, callHist, lastAct, burst>>

\* Debounce_Over writing the button's flag instead of its own.
Debounce_Over_WrongFlag ==
    /\ T32IFG
    /\ S1modified' = TRUE
    /\ T32IFG' = Timer32_clearInterruptFlag(T32IFG)
    /\ pc' = Wake(pc)
    /\ nTimerIsr' = nTimerIsr + 1
    /\ sets2' = sets2 + 1
    /\ fresh1' = TRUE
    /\ UNCHANGED <<fresh2, TimerExpired, P1IFG, t32Enabled, t32Count, leds, ret, awakeTick,
                   nEdges, nReq1, nReq2, nPortIsr, nRise1, nStarts, nTaps, nToggles,
                   sets1, callHist, lastAct, burst>>

\* void Debounce_Over(): the registered Timer32_0 ISR, entered while the timer
\* interrupt is pending.
Debounce_Over ==
    /\ T32IFG
    /\ TimerExpired' = TRUE
    /\ T32IFG' = Timer32_clearInterruptFlag(T32IFG)
    /\ pc' = Wake(pc)
    /\ nTimerIsr' = nTimerIsr + 1
    /\ sets2' = sets2 + 1
    /\ fresh2' = TRUE
    /\ UNCHANGED <<fresh1, S1modified, P1IFG, t32Enabled, t32Count, leds, ret, awakeTick,
                   nEdges, nReq1, nReq2, nPortIsr, nRise1, nStarts, nTaps, nToggles,
                   sets1, callHist, lastAct, burst>>

----------------------------------------------------------------------------
\* bool S1tapped(), one action per statement.  Main runs only while no
\* interrupt is pending.

\* if (S1modified) ... else if (TimerExpired) ...: where each test goes.
After68(s1) == IF s1 THEN "l71" ELSE "l86"
After86(te) == IF te THEN "l89" ELSE "l99"

\* The button branch returning true as well.
RetVal_ButtonTrue(p) == (p \in {"l83", "l95"})

\* The value returned at lines 83, 95 and 99.
RetVal(p) == (p = "l95")

\* The flag set again instead of reverted.
RevertedFlag_SetAgain == TRUE

\* The value lines 80 and 92 write to revert a flag.
RevertedFlag == FALSE

\* The count truncated to 16 bits, as a timer in 16-bit mode would hold it.
Timer32_setCount_16bit(count) == count % 65536

\* Timer32_setCount(TIMER32_0_BASE, count): the current count afterwards
\* (the timer is in TIMER32_32BIT mode).
Timer32_setCount(count) == count

\* line 68: if (S1modified)
Test68 ==
    /\ pc = "l68" /\ ~IrqPending
    /\ pc' = After68(S1modified)
    /\ seen68' = S1modified /\ te68' = TimerExpired
    /\ callDone' = callDone \cup {"test68"}
    /\ fresh1' = FALSE
    /\ UNCHANGED <<fresh2, flags, hw, leds, ret, awakeTick, counts, sets1, sets2, seen86,
                   lastAct, burst>>

\* line 71: Timer32_setCount(TIMER32_0_BASE, DEBOUNCE_WAIT): the load register
\* is written and the current count is reloaded at once, running or not.
SetCount ==
    /\ pc = "l71" /\ ~IrqPending
    /\ t32Count' = Timer32_setCount(DEBOUNCE_WAIT)
    /\ pc' = "l72"
    /\ callDone' = callDone \cup {IF TimerRunning THEN "reload" ELSE "load"}
    /\ UNCHANGED <<fresh1, fresh2, flags, P1IFG, T32IFG, t32Enabled, leds, ret, awakeTick, counts,
                   sets1, sets2, seen68, te68, seen86, lastAct, burst>>

\* line 72: Timer32_startTimer(TIMER32_0_BASE, true): one-shot, enabled.
StartTimer ==
    /\ pc = "l72" /\ ~IrqPending
    /\ t32Enabled' = TRUE
    /\ pc' = "l76"
    /\ nStarts' = nStarts + 1
    /\ lastAct' = "start"
    /\ callDone' = callDone \cup {"start"}
    /\ UNCHANGED <<fresh1, fresh2, flags, P1IFG, T32IFG, t32Count, leds, ret, awakeTick,
                   nEdges, nReq1, nReq2, nPortIsr, nTimerIsr, nRise1, nTaps, nToggles,
                   sets1, sets2, seen68, te68, seen86, burst>>

\* GPIO_setOutputHighOnPin(GPIO_PORT_P2, GPIO_PIN2) (line 180): the pin afterwards.
GPIO_setOutputHighOnPin == TRUE

\* The pin driven high where it is to be driven low.
GPIO_setOutputLowOnPin_High == TRUE

\* GPIO_setOutputLowOnPin(GPIO_PORT_P2, GPIO_PIN2) (line 185): the pin afterwards.
GPIO_setOutputLowOnPin == FALSE

\* line 76: TurnOn_Launchpad_LED2Blue()
TurnOn_Launchpad_LED2Blue ==
    /\ pc = "l76" /\ ~IrqPending
    /\ LED2' = GPIO_setOutputHighOnPin
    /\ pc' = "l80"
    /\ callDone' = callDone \cup {"led2on"}
    /\ UNCHANGED <<fresh1, fresh2, flags, hw, LED1, ret, awakeTick, counts, sets1, sets2,
                   seen68, te68, seen86, lastAct, burst>>

\* The return left out and the second test a plain if: the button branch
\* falls through to line 86.
AfterButtonBranch_FallThrough == "l86"

\* After line 80 the button branch returns false at line 83; the else of
\* line 86 keeps it out of the timer branch.
AfterButtonBranch == "l83"

\* line 80: S1modified = false
ClearS1modified ==
    /\ pc = "l80" /\ ~IrqPending
    /\ S1modified' = RevertedFlag
    /\ pc' = AfterButtonBranch
    /\ sets1' = 0
    /\ callDone' = callDone \cup {"clear1"}
    /\ UNCHANGED <<fresh1, fresh2, TimerExpired, hw, leds, ret, awakeTick, counts, sets2,
                   seen68, te68, seen86, lastAct, burst>>

\* line 86: else if (TimerExpired)
Test86 ==
    /\ pc = "l86" /\ ~IrqPending
    /\ pc' = After86(TimerExpired)
    /\ seen86' = TimerExpired
    /\ callDone' = callDone \cup {"test86"}
    /\ fresh2' = FALSE
    /\ UNCHANGED <<fresh1, flags, hw, leds, ret, awakeTick, counts, sets1, sets2,
                   seen68, te68, lastAct, burst>>

\* line 89: TurnOff_Launchpad_LED2Blue()
TurnOff_Launchpad_LED2Blue ==
    /\ pc = "l89" /\ ~IrqPending
    /\ LED2' = GPIO_setOutputLowOnPin
    /\ pc' = "l92"
    /\ callDone' = callDone \cup {"led2off"}
    /\ UNCHANGED <<fresh1, fresh2, flags, hw, LED1, ret, awakeTick, counts, sets1, sets2,
                   seen68, te68, seen86, lastAct, burst>>

\* line 92: TimerExpired = false
ClearTimerExpired ==
    /\ pc = "l92" /\ ~IrqPending
    /\ TimerExpired' = RevertedFlag
    /\ pc' = "l95"
    /\ sets2' = 0
    /\ callDone' = callDone \cup {"clear2"}
    /\ UNCHANGED <<fresh1, fresh2, S1modified, hw, leds, ret, awakeTick, counts, sets1,
                   seen68, te68, seen86, lastAct, burst>>

\* lines 83, 95, 99: return
Return ==
    /\ pc \in {"l83", "l95", "l99"} /\ ~IrqPending
    /\ ret' = RetVal(pc)
    /\ pc' = "l115"
    /\ nTaps' = IF ret' THEN nTaps + 1 ELSE nTaps
    /\ lastAct' = IF ret' THEN "tap" ELSE lastAct
    /\ callDone' = callDone \cup {"return"}
    /\ UNCHANGED <<fresh1, fresh2, flags, hw, leds, awakeTick,
                   nEdges, nReq1, nReq2, nPortIsr, nTimerIsr, nRise1, nStarts, nToggles,
                   sets1, sets2, seen68, te68, seen86, burst>>

S1tapped ==
    \/ Test68 \/ SetCount \/ StartTimer \/ TurnOn_Launchpad_LED2Blue
    \/ ClearS1modified \/ Test86 \/ TurnOff_Launchpad_LED2Blue
    \/ ClearTimerExpired \/ Return

----------------------------------------------------------------------------
\* int main(void): while (1) { PCM_gotoLPM0(); if (S1tapped()) Toggle(); }

\* line 113: PCM_gotoLPM0(): the CPU sleeps until an interrupt is served.
PCM_gotoLPM0 ==
    /\ pc = "l113" /\ ~IrqPending
    /\ pc' = "lpm0"
    /\ awakeTick' = FALSE
    /\ UNCHANGED <<fresh1, fresh2, flags, hw, leds, ret, counts, sets1, sets2, callHist, lastAct, burst>>

\* lines 115-116: if (S1tapped()) Toggle_Launchpad_LED1();
Toggle_Launchpad_LED1 ==
    /\ pc = "l115" /\ ~IrqPending
    /\ LED1' = (IF ret THEN ~LED1 ELSE LED1)
    /\ nToggles' = IF ret THEN nToggles + 1 ELSE nToggles
    /\ pc' = "l113"
    /\ seen68' = FALSE /\ te68' = FALSE /\ seen86' = FALSE /\ callDone' = {}
    /\ UNCHANGED <<fresh1, fresh2, flags, hw, LED2, ret, awakeTick,
                   nEdges, nReq1, nReq2, nPortIsr, nTimerIsr, nRise1, nStarts, nTaps,
                   sets1, sets2, lastAct, burst>>

main == PCM_gotoLPM0 \/ S1tapped \/ Toggle_Launchpad_LED1

Next == Edge \/ Tick \/ PORT1_IRQHandler \/ Debounce_Over \/ main

Spec == Init /\ [][Next]_vars

----------------------------------------------------------------------------
\* Properties.

Bit(b) == IF b THEN 1 ELSE 0

\* C1 as stated: once both flags are consumed and nothing is pending, the
\* timer has been started as many times as PORT1_IRQHandler has run.
C1_StartsEqualEdgeInterrupts ==
    (~S1modified /\ ~TimerExpired /\ ~IrqPending) => nStarts = nPortIsr

\* C1 amended: the timer is started exactly once per edge interrupt that
\* changes S1modified from false to true; an edge interrupt that finds the
\* flag already set starts nothing.  In every state the starts equal those
\* rises, less the one rise whose start is still to come.
C1_OneStartPerFlagRise ==
    /\ nStarts + Bit(S1modified /\ pc \notin {"l76", "l80"}) = nRise1
    /\ ~S1modified => nStarts = nRise1
    /\ nRise1 <= nPortIsr

\* Two edge interrupts were merged into one start, and a later one got its own.
C1_Witness ==
    ~S1modified /\ ~TimerExpired /\ ~IrqPending /\ nPortIsr = 3 /\ nRise1 = 2 /\ nStarts = 2

\* C2 as stated: a flag is never written true twice without a clear between,
\* and S1tapped clears a flag only when it is set.
C2_ClearedExactlyOncePerSet ==
    /\ sets1 <= 1 /\ sets2 <= 1
    /\ pc = "l80" => S1modified
    /\ pc = "l92" => TimerExpired

\* C2 amended: each flag is cleared at most once per set: S1tapped clears a
\* flag only when it is set, every clear consumes at least one write of true
\* made since the previous clear, and several writes of true may be consumed
\* by one clear.
C2_ClearedAtMostOncePerSet ==
    /\ S1modified <=> sets1 >= 1
    /\ TimerExpired <=> sets2 >= 1
    /\ pc = "l80" => S1modified /\ sets1 >= 1
    /\ pc = "l92" => TimerExpired /\ sets2 >= 1

\* S1tapped is about to clear a flag that was written true twice.
C2_Witness ==
    \/ pc = "l80" /\ sets1 = 2
    \/ pc = "l92" /\ sets2 = 2

\* C3: single producer, single consumer.  S1modified rises only in
\* PORT1_IRQHandler and TimerExpired only in Debounce_Over; a flag falls only
\* at the clearing statement of the branch of S1tapped whose test read it as
\* true; an ISR leaves the other flag alone and never writes false.
C3_FlagOwnership ==
    [][ /\ (~S1modified /\ S1modified') => PORT1_IRQHandler
        /\ (~TimerExpired /\ TimerExpired') => Debounce_Over
        /\ (S1modified /\ ~S1modified') => (ClearS1modified /\ seen68)
        /\ (TimerExpired /\ ~TimerExpired') => (ClearTimerExpired /\ ~seen68 /\ seen86)
        /\ PORT1_IRQHandler => (S1modified' /\ TimerExpired' = TimerExpired)
        /\ Debounce_Over => (TimerExpired' /\ S1modified' = S1modified)
      ]_vars

\* Both flags have been set by their ISRs and cleared by the main loop.
C3_Witness ==
    pc = "l95" /\ ~TimerExpired /\ ~S1modified /\ nRise1 >= 1 /\ nTimerIsr >= 1

ButtonActions == {"start", "led2on", "clear1"}
TimerActions == {"led2off", "clear2"}
Loaded == callDone \cap {"load", "reload"} # {}

\* C4 as stated: a call that found S1modified set has done the button
\* actions, and a call during which TimerExpired was set has done the timer
\* actions, also when both flags were set at once.
C4_BothBranchesInOneCall ==
    pc = "l115" =>
        /\ seen68 => (Loaded /\ ButtonActions \subseteq callDone)
        /\ te68 => TimerActions \subseteq callDone

\* C4 amended: a call that reads S1modified as set loads the timer with
\* DEBOUNCE_WAIT, starts it, turns the blue LED on and clears S1modified; a
\* call that reads S1modified as clear while TimerExpired is set turns the
\* blue LED off, clears TimerExpired and returns true; when both flags are
\* set at once only the button actions are done and TimerExpired stays set.
C4_OneBranchPerCall ==
    /\ [](pc = "l115" =>
            /\ seen68 => /\ Loaded /\ ButtonActions \subseteq callDone
                         /\ callDone \cap TimerActions = {}
                         /\ LED2 /\ ~ret
            /\ (~seen68 /\ te68) => /\ TimerActions \subseteq callDone
                                    /\ callDone \cap ButtonActions = {} /\ ~Loaded
                                    /\ ~LED2 /\ ret
            /\ (seen68 /\ te68) => TimerExpired)
    /\ [][SetCount => t32Count' = DEBOUNCE_WAIT]_vars
    /\ [][StartTimer => (t32Enabled' /\ Loaded)]_vars

\* A call made with both flags set has returned.
C4_Witness ==
    pc = "l115" /\ seen68 /\ te68 /\ TimerExpired /\ ~ret

\* C5 as stated: while the timer runs its count only goes down (it is not
\* reloaded before it reaches zero) and the timer is not disabled.
C5_RunsToCompletion ==
    [][TimerRunning => (t32Count' <= t32Count /\ t32Enabled')]_vars

\* C5 amended: once started the timer is never stopped or disabled; its
\* count goes up only by the reload to DEBOUNCE_WAIT at line 71 in the button
\* branch of S1tapped, which a button edge arriving within the window causes
\* and which discards the wait in progress; it goes down only by counting,
\* and reaching zero raises the timer interrupt.
C5_StoppedOnlyByExpiry ==
    [][ /\ t32Enabled => t32Enabled'
        /\ t32Count' > t32Count => (SetCount /\ seen68 /\ t32Count' = DEBOUNCE_WAIT)
        /\ t32Count' < t32Count => (Tick /\ TimerRunning /\ (t32Count' = 0 => T32IFG'))
      ]_vars

\* The running timer has been reloaded before it expired.
C5_Witness ==
    pc = "l72" /\ "reload" \in callDone /\ t32Count = DEBOUNCE_WAIT /\ nReq2 = 0

\* C6 as stated: timer starts and tap confirmations strictly alternate,
\* beginning with a start.
C6_StrictAlternation ==
    [][ /\ StartTimer => lastAct # "start"
        /\ nTaps' > nTaps => lastAct = "start"
      ]_vars

\* C6 amended: tap confirmations never come twice without a timer start
\* between them and never before the first start; timer starts may repeat
\* without a confirmation between them (each restarts the wait).
C6_TapOnlyAfterStart ==
    [][nTaps' > nTaps => (lastAct = "start" /\ nTaps < nStarts)]_vars

\* A tap was confirmed after two starts in a row, then the cycle ran again.
C6_Witness ==
    nStarts = 3 /\ nTaps = 2 /\ lastAct = "tap"

\* C7: each ISR leaves its own interrupt flag clear, so every interrupt
\* request (a flag going from clear to set) is served by exactly one
\* execution of its ISR, none is served twice, and main runs on once no
\* request is pending.
C7_OneIsrRunPerRequest ==
    /\ [](nPortIsr + Bit(P1IFG) = nReq1)
    /\ [](nTimerIsr + Bit(T32IFG) = nReq2)
    /\ [][PORT1_IRQHandler => ~P1IFG']_vars
    /\ [][Debounce_Over => ~T32IFG']_vars
    /\ [](~IrqPending /\ pc # "lpm0" => ENABLED main)

\* Both ISRs have run, nothing is pending and main is running again.
C7_Witness ==
    nPortIsr >= 2 /\ nTimerIsr >= 1 /\ ~IrqPending /\ pc = "l68"

\* C8: main is never asleep in PCM_gotoLPM0 with a flag set while no
\* interrupt is pending or due (the timer is not running): a set flag is
\* consumed without a further interrupt.
C8_NoSleepOnSetFlag ==
    ~(pc = "lpm0" /\ (S1modified \/ TimerExpired) /\ ~IrqPending /\ ~TimerRunning)

\* C9: S1tapped returns true exactly when its test of S1modified read false
\* and its test of TimerExpired read true; the call that starts the timer
\* and a call that finds neither flag set return false; LED1 is toggled once
\* per true return and never otherwise, so only after a timer expiry.
C9_TrueOnlyFromTimerBranch ==
    /\ pc = "l115" => /\ ret <=> (~seen68 /\ seen86)
                      /\ "start" \in callDone => ~ret
                      /\ (~seen68 /\ ~seen86) => ~ret
    /\ nToggles + Bit(pc = "l115" /\ ret) = nTaps
    /\ LED1 <=> (nToggles % 2 = 1)
    /\ nTaps <= nTimerIsr

\* A second call has returned true; LED1 was toggled once for the first.
C9_Witness ==
    pc = "l115" /\ ret /\ ~seen68 /\ seen86 /\ nTaps = 2 /\ nToggles = 1 /\ LED1

\* Nothing is left to happen: main is asleep, no interrupt is pending and
\* the timer is not running.
Quiescent == pc = "lpm0" /\ ~IrqPending /\ ~TimerRunning

\* C10: for a burst of edges that all come before any timer expiry, exactly
\* one tap is reported: never more than one, and one once the burst is over.
C10_OneTapPerBurst ==
    (burst /\ nEdges >= 1) =>
        /\ nTaps <= 1 /\ nToggles <= 1
        /\ Quiescent => (nTaps = 1 /\ nToggles = 1)

\* The part of C10 that holds: a burst never yields more than one tap.
C10_AtMostOneTapPerBurst ==
    (burst /\ nEdges >= 1) => (nTaps <= 1 /\ nToggles <= 1)

\* The part of C10 that holds when no flag is left set at rest.
C10_OneTapUnlessFlagLeft ==
    (burst /\ nEdges >= 1 /\ Quiescent /\ ~S1modified /\ ~TimerExpired)
        => (nTaps = 1 /\ nToggles = 1)

\* The main loop is in the debouncing wait: it has started the timer and has
\* not yet confirmed the tap that consumes the expiry of that start.
Waiting == lastAct = "start"

\* C11 as stated: in every reachable state LED2 is on exactly while the main
\* loop is in the debouncing wait; it is never off while the timer runs.
C11_Led2IffWaiting ==
    /\ LED2 <=> Waiting
    /\ TimerRunning => LED2

\* C11 amended: LED2 is on exactly while the main loop is in the debouncing
\* wait, except inside S1tapped between the timer start (lines 71-72) and
\* TurnOn_Launchpad_LED2Blue (line 76), where the timer already runs with
\* LED2 still off, and between TurnOff_Launchpad_LED2Blue (line 89) and the
\* return of true (line 95), where LED2 is already off.  Whenever main is
\* outside S1tapped LED2 is on if and only if the wait is in progress, and
\* then LED2 is on whenever the timer runs.
C11_Led2IffWaitingOutsideWindows ==
    /\ pc \notin {"l76", "l92", "l95"} => (LED2 <=> Waiting)
    /\ pc = "l76" => Waiting
    /\ pc \in {"l92", "l95"} => (Waiting /\ ~LED2 /\ ~TimerRunning)
    /\ (TimerRunning /\ pc \notin {"l72", "l76"}) => LED2

\* LED2 is on with main asleep during the wait, after an earlier wait ended.
C11_Witness ==
    pc = "lpm0" /\ LED2 /\ Waiting /\ TimerRunning /\ nTaps = 1

\* C12 as stated: no lost update.  A write of true to a flag that the main
\* loop's test of that flag has not yet read is still in the flag: the
\* clear at line 80 (line 92) never erases a set made after the test at
\* line 68 (line 86).
C12_NoLostUpdate ==
    /\ fresh1 => S1modified
    /\ fresh2 => TimerExpired

\* The half of C12 that holds: no write of true to TimerExpired is erased,
\* since the timer does not expire while main is in the timer branch.
C12_TimerExpiredNotLost == fresh2 => TimerExpired

\* Main is in the timer branch of S1tapped or has just returned true from it.
ConfirmingTap == pc \in {"l89", "l92", "l95"} \/ (pc = "l115" /\ ret)

\* C13: a tap is never reported while a debounce wait is in progress: while
\* S1tapped consumes an expiry and returns true the timer is not running,
\* the most recent timer start has counted down to zero and its interrupt
\* has been served.
C13_NoTapWhileTimerRuns ==
    ConfirmingTap =>
        /\ ~TimerRunning
        /\ t32Enabled /\ t32Count = 0 /\ ~T32IFG
        /\ nTimerIsr >= 1 /\ nReq2 = nTimerIsr

\* A tap is confirmed after TimerExpired had been left set by an earlier
\* expiry while the timer was started again.
C13_Witness ==
    pc = "l115" /\ ret /\ nTimerIsr = 2 /\ nStarts = 2 /\ nTaps = 1

\* C14: frame conditions.  No step of S1tapped changes LED1; a call that
\* took the button branch changes neither TimerExpired nor LED1; a call that
\* did not changes neither S1modified nor the timer's count or enable bit;
\* the tests and the return change no flag, no LED and no timer state, so a
\* call with both flags false changes nothing; the ISRs change no LED and no
\* timer count.
C14_FrameConditions ==
    /\ [][S1tapped => LED1' = LED1]_vars
    /\ [][(S1tapped /\ seen68) => TimerExpired' = TimerExpired]_vars
    /\ [][(S1tapped /\ ~seen68) =>
            (S1modified' = S1modified /\ t32Count' = t32Count /\ t32Enabled' = t32Enabled)]_vars
    /\ [][(Test68 \/ Test86 \/ Return) => UNCHANGED <<flags, leds, hw>>]_vars
    /\ [][(PORT1_IRQHandler \/ Debounce_Over) => UNCHANGED <<leds, t32Count, t32Enabled>>]_vars
    /\ [](pc = "l115" =>
            /\ seen68 => callDone \cap {"test86", "led2off", "clear2"} = {}
            /\ ~seen68 => callDone \cap {"load", "reload", "start", "led2on", "clear1"} = {})

\* A call that took the button branch has returned with TimerExpired still
\* set and LED1 still on.
C14_Witness ==
    pc = "l115" /\ seen68 /\ te68 /\ TimerExpired /\ LED1 /\ ~ret

\* C15: in every reachable state toggles of LED1 <= timer-expiry interrupts
\* <= timer starts <= edge interrupts, and no tap is reported and no timer
\* started without a preceding button edge.
C15_CountingChain ==
    /\ nToggles <= nTimerIsr
    /\ nTimerIsr <= nStarts
    /\ nStarts <= nPortIsr
    /\ nPortIsr <= nEdges
    /\ (nTaps >= 1 \/ nStarts >= 1 \/ t32Enabled) => nEdges >= 1

\* Every count of the chain is positive and two of the inequalities are strict.
C15_Witness ==
    nToggles = 1 /\ nTimerIsr = 2 /\ nStarts = 2 /\ nPortIsr = 3 /\ nEdges = 3

====
